---- MODULE Spec2Model ----
(***************************************************************************)
(* Foody-Fresh: the reservation pipeline.                                  *)
(*   BACKEND  : sendReservation (controller), the Reservation schema,      *)
(*              ErrorHandler / errorMiddleware (error/error.js)            *)
(*   frontend : Reservation.jsx (handleReservation), Success.jsx (the      *)
(*              countdown effect)                                          *)
(* The controller, the schema and the two frontend components are known    *)
(* through the listings and flows of PROJECT_EXPLANATION.md; error.js is   *)
(* modelled from its source.                                               *)
(***************************************************************************)
EXTENDS Integers, Sequences, FiniteSets, Bags, TLC

VARIABLES
    net,        \* bag of HTTP requests in flight (sent, being handled, answered)
    records,    \* the Reservation collection, in insertion order
    issued,     \* number of HTTP requests sent so far
    nSuccess,   \* number of 200 responses the service has sent so far
    form,       \* Reservation.jsx: the six useState values
    route,      \* the router's current location
    toast,      \* the last toast shown
    submits,    \* number of submit events of the form so far
    countdown,  \* Success.jsx: useState(10)
    timers,     \* ids of the intervals that are set and not cleared
    nextTimer,  \* the id setInterval hands out next
    entries,    \* number of times the Success page was mounted
    ticks,      \* interval callbacks run since the last mount of Success
    lateTicks,  \* interval callbacks run while Success was not mounted
    navHome,    \* navigate("/") / link navigations since the last mount of Success
    lastNav     \* what caused the last navigation away from Success

serviceVars == <<net, records, issued, nSuccess>>
clientVars  == <<form, route, toast, submits>>
successVars == <<countdown, timers, nextTimer, entries, ticks, lateTicks, navHome, lastNav>>
vars == <<net, records, issued, nSuccess, form, route, toast, submits,
          countdown, timers, nextTimer, entries, ticks, lateTicks, navHome, lastNav>>

(***************************************************************************)
(* Bounds of the model                                                     *)
(***************************************************************************)
MaxSubmits == 2     \* HTTP requests sent in one behaviour
MaxEntries == 3     \* mounts of the Success page in one behaviour

(***************************************************************************)
(* Request bodies                                                          *)
(***************************************************************************)
Fields == {"firstName", "lastName", "email", "phone", "date", "time"}

FieldOrder == <<"firstName", "lastName", "email", "phone", "time", "date">>

Name30 == "Maximilian-Alexander-Bartholom"
Name31 == "Maximilian-Alexander-Bartholome"

Base ==
    [firstName |-> "John", lastName |-> "Smith", email |-> "john@example.com",
     phone |-> "1234567890", date |-> "2025-01-01", time |-> "19:00"]

\* values a caller may put in a field, besides the one of Base
Samples(f) ==
    CASE f = "firstName" -> {"", "Jo", "Joe", Name30, Name31}
      [] f = "lastName"  -> {"", "Sm", Name31}
      [] f = "email"     -> {"", "john", "john@example"}
      [] f = "phone"     -> {"", "123456789", "12345678901", "12345abcde"}
      [] f = "date"      -> {""}
      [] f = "time"      -> {""}

With(b, f, v) == [g \in DOMAIN b |-> IF g = f THEN v ELSE b[g]]
Without(b, f) == [g \in DOMAIN b \ {f} |-> b[g]]
EmptyBody == [g \in {} |-> ""]

Bodies ==
    {Base, EmptyBody}
        \cup UNION {{With(Base, f, v) : v \in Samples(f)} : f \in Fields}
        \cup {Without(Base, f) : f \in Fields}

(***************************************************************************)
(* BACKEND/error/error.js                                                  *)
(***************************************************************************)
\* class ErrorHandler extends Error: super(message); this.StatusCode = StatusCode
ErrorHandler(message, StatusCode) ==
    [name |-> "Error", message |-> message, StatusCode |-> StatusCode]

NoErr == [name |-> "none"]

\* err.StatusCode || 500 dropped: the status of the error is used as it is
errorMiddleware_NoDefaults(err) ==
    [status |-> IF "StatusCode" \in DOMAIN err THEN err.StatusCode ELSE 0,
     json   |-> [success |-> FALSE, message |-> err.message]]

\* every error is answered as a server error
errorMiddleware_Always500(err) ==
    [status |-> 500,
     json   |-> [success |-> FALSE,
                 message |-> IF err.message # "" THEN err.message
                             ELSE "Internal Serve Error!"]]

\* errorMiddleware(err, req, res, next): the response it sends
errorMiddleware(err) ==
    LET message    == IF err.message # "" THEN err.message ELSE "Internal Serve Error!"
        StatusCode == IF "StatusCode" \in DOMAIN err /\ err.StatusCode # 0
                      THEN err.StatusCode ELSE 500
    IN  [status |-> StatusCode,
         json   |-> [success |-> FALSE, message |-> message]]

(***************************************************************************)
(* BACKEND/models/reservationSchema.js                                     *)
(***************************************************************************)
MinNameLength == 3
MaxNameLength == 30
PhoneLength   == 10

\* validator's isEmail, on the sample addresses
isEmail(s) == s \in {"john@example.com"}

\* the schema's validators of one path; TRUE when the path fails
PathFails(doc, f) ==
    \/ f \notin DOMAIN doc
    \/ doc[f] = ""                                              \* required: true
    \/ /\ f \in {"firstName", "lastName"}
       /\ (Len(doc[f]) < MinNameLength \/ Len(doc[f]) > MaxNameLength)
    \/ /\ f = "phone"
       /\ (Len(doc[f]) < PhoneLength \/ Len(doc[f]) > PhoneLength)
    \/ /\ f = "email"
       /\ ~isEmail(doc[f])

PathMessage(doc, f) ==
    IF f \notin DOMAIN doc \/ doc[f] = "" THEN f \o ": Path is required."
    ELSE IF f = "email" THEN "email: Provide a valid email"
    ELSE IF Len(doc[f]) < (IF f = "phone" THEN PhoneLength ELSE MinNameLength)
         THEN f \o ": shorter than the minimum allowed length"
         ELSE f \o ": longer than the maximum allowed length"

RECURSIVE JoinMessages(_, _)
JoinMessages(doc, i) ==
    IF i > Len(FieldOrder) THEN ""
    ELSE LET f    == FieldOrder[i]
             rest == JoinMessages(doc, i + 1)
         IN  IF PathFails(doc, f)
             THEN PathMessage(doc, f) \o (IF rest = "" THEN "" ELSE ", " \o rest)
             ELSE rest

SchemaValid(doc) == \A f \in Fields : ~PathFails(doc, f)

\* the error Reservation.create rejects with when the document fails the schema
ValidationError(doc) ==
    [name    |-> "ValidationError",
     message |-> "Reservation validation failed: " \o JoinMessages(doc, 1)]

\* the ways the storage can fail a write of a valid document
InfraErrors ==
    {[name |-> "MongoNetworkError", message |-> "connect ECONNREFUSED 127.0.0.1:27017"],
     [name |-> "MongooseError",     message |-> ""]}

\* a second insert of an equal document is dropped
Create_Dedup(recs, doc) ==
    IF \E i \in 1..Len(recs) : recs[i] = doc THEN recs ELSE Append(recs, doc)

\* the first name is stored cut to three characters
Create_Truncating(recs, doc) ==
    Append(recs, With(doc, "firstName", IF Len(doc.firstName) > 3 THEN "Joh" ELSE doc.firstName))

\* the write replaces the newest document instead of adding one
Create_Overwrite(recs, doc) ==
    IF recs = <<>> THEN <<doc>> ELSE [recs EXCEPT ![Len(recs)] = doc]

\* Reservation.create(doc), once validation and the write succeeded
Create(recs, doc) == Append(recs, doc)

(***************************************************************************)
(* BACKEND/controller/reservation.js                                       *)
(***************************************************************************)
Falsy(body, f) == f \notin DOMAIN body \/ body[f] = ""

\* only firstName is tested
Incomplete_FirstOnly(body) == Falsy(body, "firstName")

\* !firstName || !lastName || !email || !phone || !date || !time
Incomplete(body) == \E f \in Fields : Falsy(body, f)

\* { firstName, lastName, email, phone, date, time }: a field the body lacks is
\* undefined, which the document leaves out
Doc(body) == [f \in Fields \cap DOMAIN body |-> body[f]]

NoRes == [status |-> 0]

Request(body) ==
    [body |-> body, pc |-> "sent", res |-> NoRes, err |-> NoErr, inserted |-> 0]

Responded(r, res, err, inserted) ==
    [body |-> r.body, pc |-> "responded", res |-> res, err |-> err, inserted |-> inserted]

Replace(bag, old, new) == (bag (-) SetToBag({old})) (+) SetToBag({new})

\* the response of the success path carries the stored document's position
SuccessResponse_WithId ==
    [status |-> 200,
     json   |-> [success |-> TRUE, message |-> "Reservation Sent Successfully!", id |-> 1]]

\* res.status(200).json({ success: true, message })
SuccessResponse ==
    [status |-> 200,
     json   |-> [success |-> TRUE, message |-> "Reservation Sent Successfully!"]]

\* a validation error is passed on as it is, without a status
CatchCreate_NoWrap(err) == err

\* the controller's handling of a rejected create: a ValidationError becomes an
\* ErrorHandler(400); any other error goes to the error middleware as it is
CatchCreate(err) ==
    IF err.name = "ValidationError" THEN ErrorHandler(err.message, 400) ELSE err

\* sendReservation up to its await: the presence check
sendReservation(r) ==
    /\ r.pc = "sent"
    /\ IF Incomplete(r.body)
       THEN LET err == ErrorHandler("Please fill full reservation form!", 400)
            IN  net' = Replace(net, r, Responded(r, errorMiddleware(err), err, 0))
       ELSE net' = Replace(net, r, [r EXCEPT !.pc = "creating"])
    /\ UNCHANGED <<records, issued, nSuccess>>

\* await Reservation.create(...) settles and the handler answers
CreateSettles(r) ==
    /\ r.pc = "creating"
    /\ IF ~SchemaValid(Doc(r.body))
       THEN LET err == CatchCreate(ValidationError(Doc(r.body)))
            IN  /\ net' = Replace(net, r, Responded(r, errorMiddleware(err), err, 0))
                /\ UNCHANGED <<records, nSuccess>>
       ELSE \/ /\ records' = Create(records, Doc(r.body))
               /\ nSuccess' = nSuccess + 1
               /\ net' = Replace(net, r,
                            Responded(r, SuccessResponse, NoErr, Len(records') - Len(records)))
            \/ \E e \in InfraErrors :
                  LET err == CatchCreate(e)
                  IN  /\ net' = Replace(net, r, Responded(r, errorMiddleware(err), err, 0))
                      /\ UNCHANGED <<records, nSuccess>>
    /\ UNCHANGED issued

\* a caller of the HTTP endpoint posts a body
ApiSubmit(b) ==
    /\ issued < MaxSubmits
    /\ issued' = issued + 1
    /\ net' = net (+) SetToBag({Request(b)})
    /\ UNCHANGED <<records, nSuccess>>

\* the caller receives the answer
ApiReceive(r) ==
    /\ r.pc = "responded"
    /\ net' = net (-) SetToBag({r})
    /\ UNCHANGED <<records, issued, nSuccess>>

(***************************************************************************)
(* frontend/src/Pages/Success.jsx                                          *)
(***************************************************************************)
InitialCountdown == 10

\* the id the mounted effect's closure holds
timeoutId == nextTimer - 1

\* the cleanup clears nothing
Cleanup_Missing(ts, t) == ts

\* the cleanup clears the interval set before this one
Cleanup_WrongId(ts, t) == ts \ {t - 1}

\* the effect's cleanup, () => clearInterval(timeoutId)
Cleanup(ts, t) == ts \ {t}

\* the redirect waits for the counter to show 0
IsTerminal_Zero(preCount) == preCount = 0

\* if (preCount === 1)
IsTerminal(preCount) == preCount = 1

\* Success mounts: useState(10), and the effect sets its interval
MountSuccess ==
    /\ countdown' = InitialCountdown
    /\ timers' = timers \cup {nextTimer}
    /\ nextTimer' = nextTimer + 1
    /\ entries' = entries + 1
    /\ ticks' = 0
    /\ navHome' = 0
    /\ lastNav' = "none"
    /\ UNCHANGED lateTicks

\* the interval's callback: setCountdown((preCount) => ...)
Tick(t) ==
    /\ t \in timers
    /\ IF route = "/success"
       THEN /\ ticks' = ticks + 1
            /\ countdown' = countdown - 1
            /\ IF IsTerminal(countdown)
               THEN \* clearInterval(timeoutId); navigate("/"): Success unmounts
                    /\ route' = "/"
                    /\ timers' = Cleanup(timers \ {t}, timeoutId)
                    /\ navHome' = navHome + 1
                    /\ lastNav' = "timer"
               ELSE UNCHANGED <<route, timers, navHome, lastNav>>
            /\ UNCHANGED lateTicks
       ELSE \* the component is gone: the state is not set; the updater may still
            \* be run on the last state, or not at all
            /\ lateTicks' = lateTicks + 1
            /\ \/ UNCHANGED <<route, timers, navHome, lastNav>>
               \/ /\ IsTerminal(countdown)
                  /\ route' = "/"
                  /\ timers' = timers \ {t}
                  /\ navHome' = navHome + 1
                  /\ lastNav' = "timer"
            /\ UNCHANGED <<countdown, ticks>>
    /\ UNCHANGED <<nextTimer, entries, form, toast, submits>>
    /\ UNCHANGED serviceVars

\* the page's link to the home view
ClickHomeLink ==
    /\ route = "/success"
    /\ route' = "/"
    /\ timers' = Cleanup(timers, timeoutId)
    /\ navHome' = navHome + 1
    /\ lastNav' = "link"
    /\ UNCHANGED <<countdown, nextTimer, entries, ticks, lateTicks, form, toast, submits>>
    /\ UNCHANGED serviceVars

\* the view is left some other way (history, another address)
LeaveView(to) ==
    /\ route = "/success"
    /\ route' = to
    /\ timers' = Cleanup(timers, timeoutId)
    /\ lastNav' = "leave"
    /\ UNCHANGED <<countdown, nextTimer, entries, ticks, lateTicks, navHome, form, toast, submits>>
    /\ UNCHANGED serviceVars

\* the confirmation view is entered
EnterSuccess ==
    /\ route # "/success"
    /\ entries < MaxEntries
    /\ route' = "/success"
    /\ MountSuccess
    /\ UNCHANGED <<form, toast, submits>>
    /\ UNCHANGED serviceVars

(***************************************************************************)
(* frontend/src/components/Reservation.jsx                                 *)
(***************************************************************************)
EmptyForm == [f \in Fields |-> ""]

NoToast == [kind |-> "none", message |-> ""]

FillOrder == <<"firstName", "lastName", "email", "date", "time", "phone">>

\* the form with the first k fields filled as in Base
Filled(k) == [f \in Fields |-> IF \E i \in 1..k : FillOrder[i] = f THEN Base[f] ELSE ""]

\* the contents of the form the model lets the user type
FormStates ==
    {Filled(k) : k \in 0..Len(FillOrder)}
        \cup {With(Base, "firstName", "Jo"), With(Base, "firstName", "Joe"),
              With(Base, "email", "john"), With(Base, "phone", "123456789")}

\* onChange={(e) => setX(e.target.value)}
SetField(f, v) ==
    /\ route = "/"
    /\ form[f] # v
    /\ form' = [form EXCEPT ![f] = v]
    /\ form' \in FormStates
    /\ UNCHANGED <<route, toast, submits>>
    /\ UNCHANGED serviceVars
    /\ UNCHANGED successVars

\* handleReservation up to its await: axios.post(url, {six fields})
HandleReservation ==
    /\ route = "/"
    /\ issued < MaxSubmits
    /\ submits' = submits + 1
    /\ issued' = issued + 1
    /\ net' = net (+) SetToBag({Request(form)})
    /\ UNCHANGED <<records, nSuccess, form, route, toast>>
    /\ UNCHANGED successVars

\* axios resolves for a 2xx status and rejects otherwise
Resolves(res) == res.status >= 200 /\ res.status < 300

\* the message of the error axios rejects with
AxiosMessage(r) ==
    IF r.pc = "responded" THEN "Request failed" ELSE "Network Error"

\* the toast never shows what the server said
ErrorToast_Generic(r) == [kind |-> "error", message |-> AxiosMessage(r)]

\* toast.error(error.response?.data?.message || error.message)
ErrorToast(r) ==
    [kind    |-> "error",
     message |-> IF /\ r.pc = "responded"
                    /\ "message" \in DOMAIN r.res.json
                    /\ r.res.json.message # ""
                 THEN r.res.json.message
                 ELSE AxiosMessage(r)]

\* the fields are cleared whatever the answer was
FormAfterFailure_Cleared(f) == EmptyForm

\* the catch branch sets no field
FormAfterFailure(f) == f

\* handleReservation after its await: the answer of the request r arrives
ClientReceive(r) ==
    /\ r.pc = "responded"
    /\ net' = net (-) SetToBag({r})
    /\ IF Resolves(r.res)
       THEN /\ toast' = [kind |-> "success", message |-> r.res.json.message]
            /\ form' = EmptyForm
            /\ route' = "/success"
            /\ IF route # "/success"
               THEN MountSuccess
               ELSE UNCHANGED successVars
       ELSE /\ toast' = ErrorToast(r)
            /\ form' = FormAfterFailure(form)
            /\ UNCHANGED route
            /\ UNCHANGED successVars
    /\ UNCHANGED <<records, issued, nSuccess, submits>>

\* the request never reaches the service: axios rejects without a response
NetworkError(r) ==
    /\ r.pc = "sent"
    /\ net' = net (-) SetToBag({r})
    /\ toast' = ErrorToast(r)
    /\ form' = FormAfterFailure(form)
    /\ UNCHANGED <<records, issued, nSuccess, route, submits>>
    /\ UNCHANGED successVars

(***************************************************************************)
(* Specifications                                                          *)
(***************************************************************************)
Init ==
    /\ net = EmptyBag
    /\ records = <<>>
    /\ issued = 0
    /\ nSuccess = 0
    /\ form = EmptyForm
    /\ route = "/"
    /\ toast = NoToast
    /\ submits = 0
    /\ countdown = InitialCountdown
    /\ timers = {}
    /\ nextTimer = 1
    /\ entries = 0
    /\ ticks = 0
    /\ lateTicks = 0
    /\ navHome = 0
    /\ lastNav = "none"

\* the intake service and the callers of its endpoint
NextService ==
    \/ \E b \in Bodies : ApiSubmit(b) /\ UNCHANGED clientVars /\ UNCHANGED successVars
    \/ \E r \in BagToSet(net) : sendReservation(r) /\ UNCHANGED clientVars /\ UNCHANGED successVars
    \/ \E r \in BagToSet(net) : CreateSettles(r) /\ UNCHANGED clientVars /\ UNCHANGED successVars
    \/ \E r \in BagToSet(net) : ApiReceive(r) /\ UNCHANGED clientVars /\ UNCHANGED successVars

SpecService == Init /\ [][NextService]_vars

\* the form client and the service behind it
NextClient ==
    \/ \E f \in Fields : \E v \in {Base[f], ""} \cup Samples(f) : SetField(f, v)
    \/ HandleReservation
    \/ \E r \in BagToSet(net) : sendReservation(r) /\ UNCHANGED clientVars /\ UNCHANGED successVars
    \/ \E r \in BagToSet(net) : CreateSettles(r) /\ UNCHANGED clientVars /\ UNCHANGED successVars
    \/ \E r \in BagToSet(net) : ClientReceive(r)
    \/ \E r \in BagToSet(net) : NetworkError(r)
    \/ ClickHomeLink

SpecClient == Init /\ [][NextClient]_vars

\* the confirmation view
NextSuccess ==
    \/ EnterSuccess
    \/ \E t \in timers : Tick(t)
    \/ ClickHomeLink
    \/ \E to \in {"/", "/notfound"} : LeaveView(to)

SpecSuccess == Init /\ [][NextSuccess]_vars

(***************************************************************************)
(* The claims                                                              *)
(***************************************************************************)
\* the requests the service has answered and whose answer is still in flight
Answered == {r \in BagToSet(net) : r.pc = "responded"}

\* at least one of the six fields is absent or empty
MissingField(body) == \E f \in Fields : f \notin DOMAIN body \/ body[f] = ""

\* all six fields are present, and one breaks a constraint of the schema
BreaksSchema(body) ==
    /\ ~MissingField(body)
    /\ \/ ~isEmail(body.email)
       \/ Len(body.phone) # 10
       \/ Len(body.firstName) < 3 \/ Len(body.firstName) > 30
       \/ Len(body.lastName) < 3 \/ Len(body.lastName) > 30

WellFormed(body) == ~MissingField(body) /\ ~BreaksSchema(body)

\* the body of a failure response: exactly {success: false, message}
FailureBody(json) ==
    /\ DOMAIN json = {"success", "message"}
    /\ json.success = FALSE
    /\ json.message # ""

\* C1: a submission with a field absent or empty is answered 400 with
\* {success: false, message}, is never handed to Reservation.create, and
\* inserts no record.
C1_MissingFieldRejected ==
    \A r \in BagToSet(net) :
        MissingField(r.body) =>
            /\ r.pc # "creating"
            /\ r.pc = "responded" =>
                  /\ r.res.status = 400
                  /\ FailureBody(r.res.json)
                  /\ r.inserted = 0

C1_Witness ==
    \E r \in Answered :
        /\ MissingField(r.body)
        /\ "firstName" \in DOMAIN r.body /\ r.body.firstName # ""
        /\ Len(records) > 0

\* C2: a submission with all six fields present that breaks a constraint of the
\* schema (email, phone length, name lengths) is answered 400 with
\* {success: false, message} and inserts no record.
C2_SchemaViolationRejected ==
    \A r \in Answered :
        BreaksSchema(r.body) =>
            /\ r.res.status = 400
            /\ FailureBody(r.res.json)
            /\ r.inserted = 0

C2_Witness ==
    \E r \in Answered : BreaksSchema(r.body) /\ Len(r.body.firstName) = 31

\* the storage failed the write of this request's document
StorageFailed(r) == r.err.name \in {e.name : e \in InfraErrors}

\* the answer of the success path, with one record inserted that equals the
\* six submitted values
AcceptedAs(r) ==
    /\ r.res.status = 200
    /\ DOMAIN r.res.json = {"success", "message"}
    /\ r.res.json.success = TRUE
    /\ r.res.json.message # ""
    /\ r.inserted = 1
    /\ \E i \in 1..Len(records) : records[i] = [f \in Fields |-> r.body[f]]

\* C3 (as stated): every well-formed submission is answered 200 with
\* {success: true, message}, carrying no identifier, and exactly one record equal
\* to the six submitted values is inserted.
C3_EveryWellFormedAccepted ==
    \A r \in Answered : WellFormed(r.body) => AcceptedAs(r)

\* C3 (amended): every well-formed submission whose write the storage does not
\* fail is answered 200 with {success: true, message}, carrying no identifier,
\* and exactly one record equal to the six submitted values is inserted.
C3_WellFormedAccepted ==
    \A r \in Answered : (WellFormed(r.body) /\ ~StorageFailed(r)) => AcceptedAs(r)

C3_Witness ==
    \E r \in Answered :
        /\ WellFormed(r.body)
        /\ r.res.status = 200
        /\ r.body.firstName = Name30
        /\ Len(records) = 2

\* C4: every error that reaches errorMiddleware is answered with exactly
\* {success: false, message}, the message not empty, and status 400 or 500; an
\* error without a status code gets 500 and an error without a message gets the
\* fallback message; no error is answered with success: true or status 200.
C4_ErrorsNormalised ==
    \A r \in Answered :
        r.err # NoErr =>
            /\ FailureBody(r.res.json)
            /\ r.res.status \in {400, 500}
            /\ "StatusCode" \notin DOMAIN r.err => r.res.status = 500
            /\ r.err.message = "" => r.res.json.message = "Internal Serve Error!"

C4_Witness ==
    \E r \in Answered, q \in Answered :
        /\ r.err # NoErr /\ "StatusCode" \notin DOMAIN r.err /\ r.err.message = ""
        /\ q.err # NoErr /\ "StatusCode" \in DOMAIN q.err

\* C5: a valid submission whose write the storage fails is answered 500 with a
\* generic message that is not the internal error's text, and inserts no record.
C5_InfraFailureGeneric ==
    \A r \in Answered :
        StorageFailed(r) =>
            /\ r.res.status = 500
            /\ FailureBody(r.res.json)
            /\ r.err.message # "" => r.res.json.message # r.err.message
            /\ r.inserted = 0

\* C6: every 200 answer stands for one inserted record, also when the same
\* payload is submitted again or while the first request is still being handled
\* (no de-duplication), and the only requests sent are the ones the user's
\* submit events send (no retry).
C6_NoDedupNoRetry ==
    /\ Len(records) = nSuccess
    /\ issued = submits
    /\ \A r \in Answered : r.res.status = 200 => r.inserted = 1

\* two equal records, from two requests that overlapped: both answers are still
\* on their way to the client
C6_Witness ==
    /\ Len(records) = 2
    /\ records[1] = records[2]
    /\ \E r \in Answered : r.res.status = 200 /\ CopiesIn(r, net) = 2

\* C7: from the counter's start at 10 every tick takes 1 off it; while the view
\* is mounted fewer than 10 ticks have run; the timer's redirect to the home
\* view happens on the 10th tick, the one that takes the counter from 1 to 0,
\* and the counter never goes below 0.
C7_RedirectOnTenthTick ==
    /\ countdown = 10 - ticks
    /\ countdown >= 0
    /\ route = "/success" => (ticks < 10 /\ countdown >= 1)
    /\ lastNav = "timer" => (ticks = 10 /\ countdown = 0 /\ route # "/success")

C7_Witness == lastNav = "timer" /\ ticks = 10 /\ route = "/" /\ entries = 2

\* C8: per entry to the confirmation view at most one navigation to the home
\* view happens, whatever the order of ticks and the click on the link; once
\* it has happened, by the link at any counter value or by the terminal tick,
\* no interval is left set.
C8_AtMostOneNavigation ==
    /\ navHome <= 1
    /\ navHome = 1 => (timers = {} /\ lastNav \in {"link", "timer"})

C8_Witness == lastNav = "link" /\ navHome = 1 /\ ticks = 9 /\ countdown = 1

\* C9: once the confirmation view is unmounted, before its countdown completed
\* or at its end, no interval is left set and no interval callback runs on the
\* unmounted view; while the view stays unmounted the counter is not changed and
\* no navigation to the home view is made.
C9_NoTimerAfterTeardown ==
    /\ [](/\ route # "/success" => timers = {}
          /\ lateTicks = 0
          /\ Cardinality(timers) <= 1)
    /\ [][(route # "/success" /\ route' # "/success") =>
              (countdown' = countdown /\ navHome' = navHome /\ ticks' = ticks)]_vars

C9_Witness == lastNav = "leave" /\ route = "/notfound" /\ ticks = 4 /\ entries = 2

\* the answer of a request reaches handleReservation in this step
Delivered(r) == r.pc \in {"responded", "sent"} /\ net' = net (-) SetToBag({r})

\* the service answered the request with success
Succeeded(r) == r.pc = "responded" /\ r.res.status = 200 /\ r.res.json.success = TRUE

\* C10: when the answer of a submission arrives, the view goes to the
\* confirmation screen and the six fields are reset exactly when the service
\* answered with success; on a failure the six fields and the view are left as
\* they were and an error toast shows the server's message, or a fallback that
\* is not empty when there is no answer; the view enters the confirmation
\* screen in no other step, and the form can be submitted whenever it is shown.
C10_ResetIffSuccess ==
    /\ [][ /\ \A r \in BagToSet(net) :
                 Delivered(r) =>
                     IF Succeeded(r)
                     THEN /\ route' = "/success"
                          /\ form' = EmptyForm
                          /\ toast'.kind = "success"
                     ELSE /\ form' = form
                          /\ route' = route
                          /\ toast'.kind = "error"
                          /\ toast'.message # ""
                          /\ r.pc = "responded" => toast'.message = r.res.json.message
           /\ (route # "/success" /\ route' = "/success") =>
                 \E r \in BagToSet(net) : Delivered(r) /\ Succeeded(r)
         ]_vars
    /\ []((route = "/" /\ issued < MaxSubmits) => ENABLED HandleReservation)

\* after a first submission that succeeded, a second one has failed: the form
\* keeps what was typed and can be submitted again
C10_Witness ==
    /\ toast.kind = "error"
    /\ toast.message = "Reservation validation failed: email: Provide a valid email"
    /\ form = With(Base, "email", "john")
    /\ route = "/"
    /\ entries = 1

\* C11: whatever a step does (a submission accepted, rejected or failed, an
\* answer received), every record persisted before it is still there with its
\* six fields unchanged, and the collection changes only by one record being
\* added at its end: nothing is updated or deleted.
C11_RecordsOnlyGrow ==
    [][ /\ Len(records') >= Len(records)
        /\ \A i \in 1..Len(records) : records'[i] = records[i]
        /\ records' # records => Len(records') = Len(records) + 1
      ]_vars

\* a record was kept, unchanged, while a different one was inserted after it
\* and the answer of that later submission is still in flight
C11_Witness ==
    /\ Len(records) = 2
    /\ records[1] = With(Base, "firstName", Name30)
    /\ records[2] = Base
    /\ \E r \in Answered : r.body = Base /\ r.res.status = 200

====
